---- MODULE Spec2Model ----
(***************************************************************************)
(* EuropeanFootballMarket (final_507.py): a directed graph of clubs whose  *)
(* edges carry the list of transfers from one club to the other, with the  *)
(* lookup, shortest-path and ranking queries on it.                        *)
(*                                                                         *)
(* The graph is a networkx DiGraph.  Its observable state is modelled as   *)
(* the library keeps it: the node dictionary (insertion ordered), the      *)
(* successor and predecessor adjacency dictionaries (insertion ordered)    *)
(* and the 'transfers' attribute of every edge.                            *)
(***************************************************************************)
EXTENDS Integers, Sequences, FiniteSets, TLC

\* ------------------------------------------------------------------ bounds

\* Number of _add_transfer calls in a run of Spec.
MaxTransfers == 3
\* Number of _add_transfer calls in a run of SpecRank.
MaxRankTransfers == 4
\* Number of _add_transfer calls in a run of SpecPath.
MaxPathTransfers == 4
\* most_connected_clubs is called with top_n in -2 .. MaxTopN.
MaxTopN == 4

\* ------------------------------------------------------------------ inputs

\* The universe of club names.
Clubs == {"A", "B", "C", "D"}
\* Club names ingested in Spec, and those its queries name ("C" is then
\* never a club of the graph).
IngestClubs == {"A", "B"}
QueryClubs == {"A", "B", "C"}
\* Club names ingested in SpecRank.
RankClubs == {"A", "B", "C"}
\* The (from_club, to_club) pairs ingested in SpecPath: a diamond A->B->C,
\* A->C with the onward edges C->D and B->D, the back edge D->A that closes
\* the cycles, and the self-loop C->C.
PathPairs ==
    { <<"A", "B">>, <<"A", "C">>, <<"B", "C">>, <<"C", "D">>,
      <<"B", "D">>, <<"D", "A">>, <<"C", "C">> }

\* The rows handed to _add_transfer (player_name, position, fee, year).
TransferRows ==
    { [player_name |-> "Kane", position |-> "FW", fee |-> 100, year |-> 2019],
      [player_name |-> "Neuer", position |-> "GK", fee |-> 0, year |-> 2011] }
SingleRow ==
    { [player_name |-> "Kane", position |-> "FW", fee |-> 100, year |-> 2019] }

TopNs == (0 - 2) .. MaxTopN

\* ------------------------------------------------------------------ state

VARIABLES
    nodes,      \* self.graph.nodes: the clubs, in insertion order
    succ,       \* self.graph._succ: club -> its successors, in insertion order
    pred,       \* self.graph._pred: club -> its predecessors, in insertion order
    transfers,  \* <<from, to>> -> the edge's 'transfers' list (<<>>: no edge)
    pc,         \* "idle", or "bfs" inside the while loop of get_shortest_path
    queue,      \* get_shortest_path's local 'queue'
    visited,    \* get_shortest_path's local 'visited'
    last        \* the running or last call: its arguments, result and message

vars == <<nodes, succ, pred, transfers, pc, queue, visited, last>>
graph == <<nodes, succ, pred, transfers>>

\* ------------------------------------------------------------------ helpers

Range(s) == { s[i] : i \in 1..Len(s) }
Min(a, b) == IF a <= b THEN a ELSE b
Max(a, b) == IF a >= b THEN a ELSE b

Call(op, from_club, to_club, arg, ret, signal) ==
    [op |-> op, from_club |-> from_club, to_club |-> to_club,
     arg |-> arg, ret |-> ret, signal |-> signal]

\* ------------------------------------------------------------------ graph

\* club in self.graph.nodes
HasNode(club) == club \in Range(nodes)

\* self.graph.has_edge(from_club, to_club)
HasEdge(from_club, to_club) == to_club \in Range(succ[from_club])

\* self.graph.successors(club): the keys of _succ[club], in insertion order
Successors(club) == succ[club]

\* The nodes after add_edge(from_club, to_club): from_club, then to_club, each
\* added when new.
NodesAfterAdd(from_club, to_club) ==
    LET n1 == IF from_club \in Range(nodes) THEN nodes ELSE Append(nodes, from_club)
    IN  IF to_club \in Range(n1) THEN n1 ELSE Append(n1, to_club)

\* Faulty variants of TransfersAfterAdd: the record put in front of the list
\* (insert(0, ...) for append), and the list replaced on every call.
TransfersAfterAddPrepend(from_club, to_club, transfer_data) ==
    IF HasEdge(from_club, to_club)
        THEN [transfers EXCEPT ![<<from_club, to_club>>] = <<transfer_data>> \o @]
        ELSE [transfers EXCEPT ![<<from_club, to_club>>] = <<transfer_data>>]
TransfersAfterAddOverwrite(from_club, to_club, transfer_data) ==
    [transfers EXCEPT ![<<from_club, to_club>>] = <<transfer_data>>]
\* The edges' transfer lists after _add_transfer: appended to the list of an
\* existing edge, a one-element list on a new edge.
TransfersAfterAdd(from_club, to_club, transfer_data) ==
    IF HasEdge(from_club, to_club)
        THEN [transfers EXCEPT ![<<from_club, to_club>>] = Append(@, transfer_data)]
        ELSE [transfers EXCEPT ![<<from_club, to_club>>] = <<transfer_data>>]

\* A faulty variant of AddTransfer: the graph built as an undirected
\* nx.Graph, whose edge (and its transfer list) is seen from both ends.
AddTransferUndirected(from_club, to_club, player_name, position, fee, year) ==
    LET transfer_data == [player_name |-> player_name, position |-> position,
                          fee |-> fee, year |-> year]
        Linked(adj, a, b) ==
            IF b \in Range(adj[a]) THEN adj[a] ELSE Append(adj[a], b)
        BothWays(adj) ==
            [c \in Clubs |->
                IF c = from_club THEN Linked(adj, from_club, to_club)
                ELSE IF c = to_club THEN Linked(adj, to_club, from_club)
                ELSE adj[c]]
    IN  /\ pc = "idle"
        /\ last' = Call("add_transfer", from_club, to_club, transfer_data,
                        <<>>, "None")
        /\ transfers' = [p \in Clubs \X Clubs |->
                            IF p = <<from_club, to_club>> \/ p = <<to_club, from_club>>
                                THEN Append(transfers[p], transfer_data)
                                ELSE transfers[p]]
        /\ nodes' = NodesAfterAdd(from_club, to_club)
        /\ succ' = BothWays(succ)
        /\ pred' = BothWays(pred)
        /\ UNCHANGED <<pc, queue, visited>>
\* _add_transfer(from_club, to_club, player_name, position, fee, year)
AddTransfer(from_club, to_club, player_name, position, fee, year) ==
    LET transfer_data == [player_name |-> player_name, position |-> position,
                          fee |-> fee, year |-> year]
    IN  /\ pc = "idle"
        /\ last' = Call("add_transfer", from_club, to_club, transfer_data,
                        <<>>, "None")
        /\ transfers' = TransfersAfterAdd(from_club, to_club, transfer_data)
        /\ IF HasEdge(from_club, to_club)
              THEN UNCHANGED <<nodes, succ, pred>>
              ELSE /\ nodes' = NodesAfterAdd(from_club, to_club)
                   /\ succ' = [succ EXCEPT ![from_club] = Append(@, to_club)]
                   /\ pred' = [pred EXCEPT ![to_club] = Append(@, from_club)]
        /\ UNCHANGED <<pc, queue, visited>>

\* ------------------------------------------------------------------ lookup

\* get_transfers_between(from_club, to_club): the value returned
get_transfers_between(from_club, to_club) ==
    IF ~HasEdge(from_club, to_club)
        THEN <<>>
        ELSE transfers[<<from_club, to_club>>]

GetTransfersBetween(from_club, to_club) ==
    /\ pc = "idle"
    /\ last' = Call("get_transfers_between", from_club, to_club, 0,
                    get_transfers_between(from_club, to_club), "None")
    /\ UNCHANGED <<graph, pc, queue, visited>>

\* print_transfers_between(from_club, to_club): the heading printed and the
\* transfers listed under it.
print_transfers_between(from_club, to_club) ==
    LET found == get_transfers_between(from_club, to_club)
    IN  IF found = <<>>
            THEN [heading |-> "NoDirectTransfers", listed |-> <<>>]
            ELSE [heading |-> "Transfers", listed |-> found]

PrintTransfersBetween(from_club, to_club) ==
    /\ pc = "idle"
    /\ last' = Call("print_transfers_between", from_club, to_club, 0,
                    print_transfers_between(from_club, to_club).listed,
                    print_transfers_between(from_club, to_club).heading)
    /\ UNCHANGED <<graph, pc, queue, visited>>

\* ------------------------------------------------------------------ shortest path

\* A faulty variant of BothClubsFound: 'and' for 'or' in line 164.
BothClubsFoundEitherMutant(from_club, to_club) ==
    HasNode(from_club) \/ HasNode(to_club)
\* The guard of line 164 negated: both clubs are nodes of the graph.
BothClubsFound(from_club, to_club) ==
    HasNode(from_club) /\ HasNode(to_club)

\* A faulty variant of NewPaths: the successors taken in reverse order.
RECURSIVE NewPathsReversed(_, _, _)
NewPathsReversed(path, neighbors, seen) ==
    IF neighbors = <<>>
        THEN <<>>
        ELSE IF Head(neighbors) \notin seen
                THEN NewPathsReversed(path, Tail(neighbors), seen)
                        \o <<Append(path, Head(neighbors))>>
                ELSE NewPathsReversed(path, Tail(neighbors), seen)
\* The paths the for loop of lines 180-183 appends for 'path', whose tail
\* 'current' has just been added to 'seen'.
RECURSIVE NewPaths(_, _, _)
NewPaths(path, neighbors, seen) ==
    IF neighbors = <<>>
        THEN <<>>
        ELSE IF Head(neighbors) \notin seen
                THEN <<Append(path, Head(neighbors))>>
                        \o NewPaths(path, Tail(neighbors), seen)
                ELSE NewPaths(path, Tail(neighbors), seen)

\* A faulty variant of Enqueue: the new paths put in front of the queue
\* (a depth-first search).
EnqueueFrontMutant(rest, new_paths) == new_paths \o rest
\* queue.append(new_path) for every new path, after queue.pop(0)
Enqueue(rest, new_paths) == rest \o new_paths

\* get_shortest_path(from_club, to_club), lines 164-169: the not-found
\* return, or the entry into the while loop.
GetShortestPath(from_club, to_club) ==
    /\ pc = "idle"
    /\ IF ~BothClubsFound(from_club, to_club)
          THEN /\ last' = Call("get_shortest_path", from_club, to_club, 0,
                               <<>>, "NotFound")
               /\ UNCHANGED <<pc, queue, visited>>
          ELSE /\ pc' = "bfs"
               /\ visited' = {}
               /\ queue' = << <<from_club>> >>
               /\ last' = Call("get_shortest_path", from_club, to_club, 0,
                               <<>>, "None")
    /\ UNCHANGED graph

\* One iteration of the while loop of lines 171-183, or its exit to
\* lines 185-186.
BFSStep ==
    /\ pc = "bfs"
    /\ IF queue = <<>>
          THEN /\ last' = [last EXCEPT !.signal = "NoPathExists"]
               /\ pc' = "idle"
               /\ UNCHANGED <<queue, visited>>
          ELSE LET path == Head(queue)
                   current == path[Len(path)]
               IN  IF current = last.to_club
                      THEN /\ last' = [last EXCEPT !.ret = path]
                           /\ pc' = "idle"
                           /\ queue' = <<>>
                           /\ visited' = {}
                      ELSE /\ IF current \notin visited
                                 THEN /\ visited' = visited \cup {current}
                                      /\ queue' = Enqueue(Tail(queue),
                                            NewPaths(path, Successors(current),
                                                     visited \cup {current}))
                                 ELSE /\ queue' = Tail(queue)
                                      /\ UNCHANGED visited
                           /\ UNCHANGED <<pc, last>>
    /\ UNCHANGED graph

\* ------------------------------------------------------------------ ranking

\* A faulty variant of Degree: the transfers on the club's edges counted.
DegreeCountsTransfers(club) ==
    LET RECURSIVE Sum(_)
        Sum(S) == IF S = {} THEN 0
                  ELSE LET p == CHOOSE q \in S : TRUE
                       IN  Len(transfers[p]) + Sum(S \ {p})
    IN  Sum({ p \in Clubs \X Clubs : p[1] = club \/ p[2] = club })
\* self.graph.degree()[club]: len(_succ[club]) + len(_pred[club])
Degree(club) == Len(succ[club]) + Len(pred[club])

\* self.graph.degree(): a (club, degree) pair per node, in node order
Degrees == [i \in 1..Len(nodes) |-> <<nodes[i], Degree(nodes[i])>>]

\* A faulty variant of Insert: reverse=True left out.
InsertAscending(sorted, entry) ==
    LET k == Cardinality({ i \in 1..Len(sorted) : sorted[i][2] <= entry[2] })
    IN  SubSeq(sorted, 1, k) \o <<entry>> \o SubSeq(sorted, k + 1, Len(sorted))
\* sorted(..., key=lambda x: x[1], reverse=True): 'entry' goes behind the
\* entries of 'sorted' whose degree is not smaller (the sort is stable).
Insert(sorted, entry) ==
    LET k == Cardinality({ i \in 1..Len(sorted) : sorted[i][2] >= entry[2] })
    IN  SubSeq(sorted, 1, k) \o <<entry>> \o SubSeq(sorted, k + 1, Len(sorted))

RECURSIVE SortedByDegree(_)
SortedByDegree(entries) ==
    IF entries = <<>>
        THEN <<>>
        ELSE Insert(SortedByDegree(SubSeq(entries, 1, Len(entries) - 1)),
                    entries[Len(entries)])

\* s[:n]
Slice(s, n) ==
    IF n >= 0
        THEN SubSeq(s, 1, Min(n, Len(s)))
        ELSE SubSeq(s, 1, Max(Len(s) + n, 0))

\* most_connected_clubs(top_n): the value returned
most_connected_clubs(top_n) == Slice(SortedByDegree(Degrees), top_n)

MostConnectedClubs(top_n) ==
    /\ pc = "idle"
    /\ last' = Call("most_connected_clubs", "", "", top_n,
                    most_connected_clubs(top_n), "None")
    /\ UNCHANGED <<graph, pc, queue, visited>>

\* ------------------------------------------------------------------ specifications

TotalTransfers ==
    LET RECURSIVE Sum(_)
        Sum(S) == IF S = {} THEN 0
                  ELSE LET p == CHOOSE q \in S : TRUE
                       IN  Len(transfers[p]) + Sum(S \ {p})
    IN  Sum(Clubs \X Clubs)

\* __init__: self.graph = nx.DiGraph()
Init ==
    /\ nodes = <<>>
    /\ succ = [c \in Clubs |-> <<>>]
    /\ pred = [c \in Clubs |-> <<>>]
    /\ transfers = [p \in Clubs \X Clubs |-> <<>>]
    /\ pc = "idle"
    /\ queue = <<>>
    /\ visited = {}
    /\ last = Call("init", "", "", 0, <<>>, "None")

Ingest ==
    /\ TotalTransfers < MaxTransfers
    /\ \E from_club \in IngestClubs, to_club \in IngestClubs, row \in TransferRows :
          AddTransfer(from_club, to_club, row.player_name, row.position,
                      row.fee, row.year)

Next ==
    \/ Ingest
    \/ \E from_club \in QueryClubs, to_club \in QueryClubs :
          GetTransfersBetween(from_club, to_club)
    \/ \E from_club \in QueryClubs, to_club \in QueryClubs :
          PrintTransfersBetween(from_club, to_club)
    \/ \E from_club \in QueryClubs, to_club \in QueryClubs :
          GetShortestPath(from_club, to_club)
    \/ BFSStep
    \/ \E top_n \in TopNs : MostConnectedClubs(top_n)

Spec == Init /\ [][Next]_vars

IngestRank ==
    /\ TotalTransfers < MaxRankTransfers
    /\ \E from_club \in RankClubs, to_club \in RankClubs, row \in SingleRow :
          AddTransfer(from_club, to_club, row.player_name, row.position,
                      row.fee, row.year)

NextRank ==
    \/ IngestRank
    \/ \E top_n \in TopNs : MostConnectedClubs(top_n)

SpecRank == Init /\ [][NextRank]_vars

IngestPath ==
    /\ TotalTransfers < MaxPathTransfers
    /\ \E pair \in PathPairs, row \in SingleRow :
          AddTransfer(pair[1], pair[2], row.player_name, row.position,
                      row.fee, row.year)

NextPath ==
    \/ IngestPath
    \/ \E from_club \in Clubs, to_club \in Clubs :
          GetShortestPath(from_club, to_club)
    \/ BFSStep

\* get_shortest_path runs its loop to completion before anything else
\* happens: the program is sequential.
SpecPath == Init /\ [][NextPath]_vars /\ WF_vars(BFSStep)

\* ------------------------------------------------------------------ properties

IsPrefix(s, t) == Len(s) <= Len(t) /\ SubSeq(t, 1, Len(s)) = s

\* (A step is an AddTransfer step only if it leaves last.op = "add_transfer";
\* the formulas below test that first.)
\* C1: in any graph state, for any clubs from, to (known or not, from = to
\* included) and any transfer record, the lookup of (from, to) after
\* add_transfer(from, to, record) is one longer than before, ends with the
\* record, and begins with the earlier list, unchanged and in order.
C1_AddThenLookup ==
    [][ last'.op = "add_transfer" =>
        \A from_club \in Clubs, to_club \in Clubs, row \in TransferRows :
            AddTransfer(from_club, to_club, row.player_name, row.position,
                        row.fee, row.year)
            => LET before == get_transfers_between(from_club, to_club)
                   after == get_transfers_between(from_club, to_club)'
               IN  /\ Len(after) = Len(before) + 1
                   /\ after[Len(after)] = row
                   /\ SubSeq(after, 1, Len(before)) = before ]_vars

\* An add on a pair (a self-pair among them) whose list already held two
\* different records.
C1_Witness ==
    /\ last.op = "add_transfer"
    /\ last.from_club = last.to_club
    /\ LET found == get_transfers_between(last.from_club, last.to_club)
       IN  /\ Len(found) >= 3
           /\ found[1] # found[2]
           /\ found[Len(found)] = last.arg

\* C8: add_transfer(A, B, ...) changes the lookup of the ordered pair (A, B)
\* only: every other pair, the reverse pair (B, A) among them, looks up the
\* same list before and after; every lookup is empty on the empty graph.
C8_OtherPairsUnchanged ==
    /\ \A c \in Clubs, d \in Clubs : get_transfers_between(c, d) = <<>>
    /\ [][ last'.op = "add_transfer" =>
           \A from_club \in Clubs, to_club \in Clubs, row \in TransferRows :
            AddTransfer(from_club, to_club, row.player_name, row.position,
                        row.fee, row.year)
            => \A c \in Clubs, d \in Clubs :
                  <<c, d>> # <<from_club, to_club>>
                  => get_transfers_between(c, d)'
                        = get_transfers_between(c, d) ]_vars

\* An add on (A, B), A # B, while (B, A) holds a different, non-empty list.
C8_Witness ==
    /\ last.op = "add_transfer"
    /\ last.from_club # last.to_club
    /\ Len(get_transfers_between(last.from_club, last.to_club)) >= 2
    /\ get_transfers_between(last.to_club, last.from_club) # <<>>
    /\ get_transfers_between(last.to_club, last.from_club)[1] # last.arg

\* The clubs of the graph, and the in-degree plus out-degree of a club
\* counted in ordered pairs of clubs joined by an edge.
KnownClubs == { c \in Clubs : HasNode(c) }
InOutDegree(club) ==
    Cardinality({ v \in Clubs : HasEdge(club, v) })
        + Cardinality({ u \in Clubs : HasEdge(u, club) })

\* What a lookup call on (c, d) shows its caller: the value returned or
\* listed, and the message printed.
LookupOutcome(op, c, d) ==
    IF op = "get_transfers_between"
        THEN <<get_transfers_between(c, d), "None">>
        ELSE <<print_transfers_between(c, d).listed,
               print_transfers_between(c, d).heading>>

\* C4: the outcome of a lookup that names an unknown club can be told apart
\* from the outcome of a lookup on two known clubs with no transfers
\* recorded from the one to the other.
C4_UnknownClubToldApart ==
    ( /\ last.op \in {"get_transfers_between", "print_transfers_between"}
      /\ ~(HasNode(last.from_club) /\ HasNode(last.to_club)) )
    => \A c \in KnownClubs, d \in KnownClubs :
          ~HasEdge(c, d)
          => <<last.ret, last.signal>> # LookupOutcome(last.op, c, d)

\* C5: for top_n > 0, most_connected(top_n) returns min(top_n, number of
\* clubs) entries, each club at most once, with degrees non-increasing along
\* the list and no omitted club of a greater degree than a returned one; for
\* top_n >= number of clubs, every club of the graph is returned.
C5_TopByDegree ==
    (last.op = "most_connected_clubs" /\ last.arg > 0)
    => LET ret == last.ret
           returned == { ret[i][1] : i \in 1..Len(ret) }
       IN  /\ Len(ret) = Min(last.arg, Cardinality(KnownClubs))
           /\ Cardinality(returned) = Len(ret)
           /\ returned \subseteq KnownClubs
           /\ \A i \in 1..(Len(ret) - 1) : ret[i][2] >= ret[i + 1][2]
           /\ \A c \in KnownClubs \ returned : \A i \in 1..Len(ret) :
                  InOutDegree(c) <= ret[i][2]
           /\ last.arg >= Cardinality(KnownClubs) => returned = KnownClubs

\* A ranking cut short of the graph's clubs, whose first entry is not the
\* first club ingested.
C5_Witness ==
    /\ last.op = "most_connected_clubs"
    /\ last.arg > 0
    /\ last.arg < Len(nodes)
    /\ last.ret[1][1] # nodes[1]
    /\ last.ret[1][2] > last.ret[Len(last.ret)][2]

\* C6: for every top_n <= 0 and every graph, most_connected(top_n) returns
\* the empty sequence.
C6_NonPositiveTopNEmpty ==
    (last.op = "most_connected_clubs" /\ last.arg <= 0) => last.ret = <<>>

\* The degree most_connected ranks a club by (0 for a club not of the graph).
ReportedDegree(club) ==
    LET at == { i \in 1..Len(Degrees) : Degrees[i][1] = club }
    IN  IF at = {} THEN 0 ELSE Degrees[CHOOSE i \in at : TRUE][2]

C7_Reported ==
    last.op = "most_connected_clubs"
    => \A i \in 1..Len(last.ret) :
          last.ret[i][2] = InOutDegree(last.ret[i][1])

C7_AddEffect ==
    last'.op = "add_transfer" =>
    \A from_club \in Clubs, to_club \in Clubs, row \in TransferRows :
        AddTransfer(from_club, to_club, row.player_name, row.position,
                    row.fee, row.year)
        => IF HasEdge(from_club, to_club)
              THEN \A c \in Clubs : ReportedDegree(c)' = ReportedDegree(c)
              ELSE from_club # to_club
                   => \A c \in Clubs :
                         ReportedDegree(c)' =
                            IF c \in {from_club, to_club}
                                THEN ReportedDegree(c) + 1
                                ELSE ReportedDegree(c)

\* C7: the degree most_connected reports for a club is its in-degree plus
\* its out-degree counted in distinct directed edges, not in transfers: an
\* add_transfer on an existing edge changes no degree, one creating the edge
\* A->B, A # B, raises the degrees of A and of B by one and no other.
C7_DegreeCountsEdges ==
    C7_Reported /\ [][C7_AddEffect /\ C7_Reported']_vars

\* A full ranking of a graph A->B, B->C: the middle club has degree 2, the
\* first club ingested degree 1.
C7_Witness ==
    /\ last.op = "most_connected_clubs"
    /\ Len(last.ret) = 3
    /\ last.ret[1] = <<nodes[2], 2>>
    /\ last.ret[2] = <<nodes[1], 1>>
    /\ HasEdge(nodes[1], nodes[2])
    /\ HasEdge(nodes[2], nodes[3])

C9_GrowOnly ==
    /\ last'.op # "add_transfer" => UNCHANGED graph
    /\ \/ UNCHANGED graph
       \/ /\ \A c \in Clubs : HasNode(c) => HasNode(c)'
          /\ \A c \in Clubs, d \in Clubs :
                /\ HasEdge(c, d) => HasEdge(c, d)'
                /\ IsPrefix(get_transfers_between(c, d),
                            get_transfers_between(c, d)')
                /\ HasEdge(c, d)' => get_transfers_between(c, d)' # <<>>

\* C9: from the empty graph on, across any interleaving of add_transfer and
\* the queries, no club and no edge disappears, an edge's transfer list is a
\* prefix of its later lists and never empty, and the queries (on unknown
\* clubs too) leave clubs, edges and transfer lists unchanged.
C9_Monotone ==
    /\ nodes = <<>>
    /\ \A c \in Clubs, d \in Clubs : ~HasEdge(c, d)
    /\ [][C9_GrowOnly]_vars

\* A shortest-path query naming an unknown club, answered on a graph that
\* holds an edge with two transfers.
C9_Witness ==
    /\ pc = "idle"
    /\ last.op = "get_shortest_path"
    /\ last.signal = "NotFound"
    /\ ~HasNode(last.to_club)
    /\ HasNode(last.from_club)
    /\ \E c \in Clubs, d \in Clubs : Len(get_transfers_between(c, d)) >= 2

\* The clubs a directed route of at most k edges leads to from 'club', and
\* the number of edges of the shortest route from from_club to to_club.
RECURSIVE ReachWithin(_, _)
ReachWithin(club, k) ==
    IF k = 0
        THEN {club}
        ELSE LET near == ReachWithin(club, k - 1)
             IN  near \cup { v \in Clubs : \E u \in near : HasEdge(u, v) }
HasRoute(from_club, to_club) ==
    to_club \in ReachWithin(from_club, Cardinality(Clubs))
Distance(from_club, to_club) ==
    CHOOSE k \in 0..Cardinality(Clubs) :
        /\ to_club \in ReachWithin(from_club, k)
        /\ k > 0 => to_club \notin ReachWithin(from_club, k - 1)

\* A get_shortest_path call has returned.
PathReturned == pc = "idle" /\ last.op = "get_shortest_path"

\* C2: for two known clubs joined by a directed route, get_shortest_path
\* returns a path from from_club to to_club whose consecutive pairs are
\* edges and whose number of edges is minimal; [X] when both clubs are X.
C2_ShortestPath ==
    ( /\ PathReturned
      /\ HasNode(last.from_club) /\ HasNode(last.to_club)
      /\ HasRoute(last.from_club, last.to_club) )
    => LET path == last.ret
       IN  /\ path # <<>>
           /\ path[1] = last.from_club
           /\ path[Len(path)] = last.to_club
           /\ \A i \in 1..(Len(path) - 1) : HasEdge(path[i], path[i + 1])
           /\ Len(path) - 1 = Distance(last.from_club, last.to_club)
           /\ last.from_club = last.to_club => path = <<last.from_club>>

\* A two-edge path returned where a three-edge route, first found by the
\* search, leads to the same club.
C2_Witness ==
    /\ PathReturned
    /\ last.ret = <<"A", "B", "D">>
    /\ Successors("B") = <<"C", "D">>
    /\ HasEdge("C", "D")

C3_Signals ==
    PathReturned
    => /\ ~(HasNode(last.from_club) /\ HasNode(last.to_club))
            => last.signal = "NotFound" /\ last.ret = <<>>
       /\ ( /\ HasNode(last.from_club) /\ HasNode(last.to_club)
            /\ ~HasRoute(last.from_club, last.to_club) )
            => last.signal = "NoPathExists" /\ last.ret = <<>>
       /\ last.ret # <<>> => last.signal = "None"

C3_NoSearchOnUnknown ==
    pc = "bfs" => HasNode(last.from_club) /\ HasNode(last.to_club)

\* C3: get_shortest_path on a club that is no node emits NotFound, searches
\* no path and returns empty; on two nodes without a directed route it
\* terminates, emits NoPathExists and returns empty; a returned path comes
\* with neither signal; every search terminates.
C3_FailureSignals ==
    /\ [](C3_Signals /\ C3_NoSearchOnUnknown)
    /\ (pc = "bfs") ~> (pc = "idle")

\* No route from A to C, searched around the cycle A->B->D->A; C is a club
\* by its self-loop.
C3_Witness ==
    /\ PathReturned
    /\ last.from_club = "A" /\ last.to_club = "C"
    /\ last.signal = "NoPathExists"
    /\ last.ret = <<>>
    /\ HasEdge("A", "B") /\ HasEdge("B", "D") /\ HasEdge("D", "A")
    /\ HasEdge("C", "C")

\* The textbook breadth-first search: a club is marked when first enqueued,
\* and so sits in the frontier at most once.
RECURSIVE StandardBFS(_, _, _)
StandardBFS(frontier, marked, to_club) ==
    IF frontier = <<>>
        THEN <<>>
        ELSE LET path == Head(frontier)
                 current == path[Len(path)]
                 fresh == SelectSeq(succ[current], LAMBDA v : v \notin marked)
             IN  IF current = to_club
                    THEN path
                    ELSE StandardBFS(
                            Tail(frontier)
                                \o [i \in 1..Len(fresh) |-> Append(path, fresh[i])],
                            marked \cup Range(fresh), to_club)

\* C10: for every graph and neighbour order and every two known clubs,
\* get_shortest_path returns the path, or the empty result, of the
\* breadth-first search that marks a club when it is first enqueued.
C10_SameAsStandardBFS ==
    (PathReturned /\ HasNode(last.from_club) /\ HasNode(last.to_club))
    => last.ret = StandardBFS(<< <<last.from_club>> >>, {last.from_club},
                              last.to_club)

\* The search from A to D on A->B, A->C, B->C, C->D: the path A,B,C is
\* enqueued while A,C waits in the frontier, and is dequeued, its tail C
\* already visited, before A,C,D is returned.
C10_Witness ==
    /\ PathReturned
    /\ last.ret = <<"A", "C", "D">>
    /\ Successors("A") = <<"B", "C">>
    /\ HasEdge("B", "C")
    /\ ~HasEdge("B", "D")

====
